---- MODULE Spec2Model ----
(***************************************************************************)
(* One VT52 session of turri21/VT52_Senhor: the Connection (serial line or *)
(* accepted telnet socket), the "Guess the Animal" game session            *)
(* (vt52-guess-the-animal-game.py) and the scripted terminal test          *)
(* (vt52-test-server.py).                                                  *)
(*                                                                         *)
(* Bytes are integers 0..255, a word is the sequence of its character      *)
(* codes.  A step of the session runs from one blocking receive to the     *)
(* next (or to the end of the current group of sends); every send and      *)
(* every receive it performs may raise ConnectionError.                    *)
(***************************************************************************)
EXTENDS Integers, Sequences, FiniteSets, TLC

VARIABLES
    prog,             \* "game" | "demo": which program's session this is
    transport,        \* "serial" | "telnet": the Connection's class
    link,             \* the peer/line as the transport sees it: "up" | "eof" | "dead"
    open,             \* the Connection has not been closed
    closeCalls,       \* number of connection.close() calls made by the session
    pc,               \* where the session is
    current_animal,   \* AnimalGame.current_animal
    guessed_letters,  \* AnimalGame.guessed_letters
    attempts_left,    \* AnimalGame.attempts_left
    lost,             \* the operation at which a ConnectionError was first raised
    afterLost,        \* operations attempted on the Connection after that
    afterClose,       \* operations attempted on the Connection after its close
    said,             \* the end-of-round messages sent in the current round
    screen,           \* what the last complete redraw of the round has drawn
    echo,             \* the last byte get_input answered and what it sent in answer
    dpc,              \* demo: index of the next send of the script
    wire,             \* demo: the payloads the Connection has accepted, in order
    unread,           \* demo: bytes the peer has typed that nobody has read
    args,             \* the parsed command line: [mode, port]
    main,             \* where the main thread of the process is
    exit_code,        \* the process's exit code, -1 while it runs
    telnet_port,      \* the port run_telnet_server was called with, 0 before
    listening,        \* the listening socket is open
    accepting,        \* serve_forever is running
    cur,              \* network mode: the worker thread that is running, 0 for none
    parked,           \* network mode: the sessions of the worker threads that are not running
    row,              \* position_cursor's argument row
    col,              \* position_cursor's argument col
    cmd,              \* what position_cursor(row, col) did
    trace             \* whether get_input's answers are recorded in echo

\* the state of one session: a Connection and the AnimalGame or VT52Demo on it
session == <<prog, transport, link, open, closeCalls, pc, current_animal,
             guessed_letters, attempts_left, lost, afterLost, afterClose,
             said, screen, echo, dpc, wire, unread>>

\* the process around the sessions: main(), the server and its threads
process == <<args, main, exit_code, telnet_port, listening, accepting, cur, parked>>

cursor == <<row, col, cmd, trace>>

vars == <<session, process, cursor>>

round == <<current_animal, guessed_letters, attempts_left>>
display == <<said, screen, echo>>
demo == <<dpc, wire, unread>>

----------------------------------------------------------------------------
(* Bounds of the model. *)

\* How many of the alphabetically first unguessed letters outside the target
\* word the peer chooses its next wrong guess from.
WrongChoice == 1

\* Bytes the peer may type ahead while the demo runs.
MaxUnread == 2

----------------------------------------------------------------------------
(* Constants of the programs. *)

ESC == 27
CURSOR_UP == 65
CURSOR_DOWN == 66
CURSOR_RIGHT == 67
CURSOR_LEFT == 68
CURSOR_HOME == 72
REVERSE_LINEFEED == 73
ERASE_SCREEN == 74
ERASE_TO_EOL == 75
CURSOR_POS == 89

max_attempts == 6

\* self.animals, each word as its character codes
animals ==
    << <<76, 73, 79, 78>>,                    \* LION
       <<84, 73, 71, 69, 82>>,                \* TIGER
       <<66, 69, 65, 82>>,                    \* BEAR
       <<69, 76, 69, 80, 72, 65, 78, 84>>,    \* ELEPHANT
       <<71, 73, 82, 65, 70, 70, 69>>,        \* GIRAFFE
       <<90, 69, 66, 82, 65>>,                \* ZEBRA
       <<77, 79, 78, 75, 69, 89>>,            \* MONKEY
       <<75, 65, 78, 71, 65, 82, 79, 79>>,    \* KANGAROO
       <<80, 69, 78, 71, 85, 73, 78>>,        \* PENGUIN
       <<68, 79, 76, 80, 72, 73, 78>>,        \* DOLPHIN
       <<83, 78, 65, 75, 69>>,                \* SNAKE
       <<69, 65, 71, 76, 69>>,                \* EAGLE
       <<87, 79, 76, 70>>,                    \* WOLF
       <<70, 79, 88>>,                        \* FOX
       <<68, 69, 69, 82>> >>                  \* DEER

----------------------------------------------------------------------------
(* Pure helpers. *)

\* the characters of a word, as `x in word` sees them
Letters(w) == {w[i] : i \in 1..Len(w)}

\* Faulty variant of upper: the byte is used as it was received
upper_omitted(b) == b

\* bytes.upper() on one byte: ASCII a..z to A..Z, every other byte kept
upper(b) == IF b >= 97 /\ b <= 122 THEN b - 32 ELSE b

\* char >= b'A' and char <= b'Z'
IsLetter(c) == c >= 65 /\ c <= 90

\* Faulty variant of get_input_echo: the byte is echoed as it was received
get_input_echo_as_typed(b) ==
    IF IsLetter(upper(b)) THEN <<b, 13, 10>> ELSE <<>>

\* get_input's answer to a received byte b: char + b'\r\n' with the
\* uppercased byte if that is within b'A'..b'Z', and no send otherwise
get_input_echo(b) ==
    IF IsLetter(upper(b)) THEN <<upper(b), 13, 10>> ELSE <<>>

\* get_input has answered no byte
NoEcho == [key |-> -1, sent |-> <<>>]

\* get_input has received byte b and answered it
Answered(b) ==
    IF trace THEN [key |-> b, sent |-> get_input_echo(b)] ELSE echo

\* Faulty variant of WinCondition: len(self.guessed_letters) >= len(set(word)),
\* counting the guessed letters without looking at which they are
WinConditionByCount(w, g) == Cardinality(g) >= Cardinality(Letters(w))

\* all(letter in self.guessed_letters for letter in self.current_animal)
WinCondition(w, g) == \A i \in 1..Len(w) : w[i] \in g

\* draw_hangman's list `stages`: the seven pictures, each of seven lines
stages ==
    << <<"  +---+", "  |   |", "      |", "      |", "      |", "      |", "=========">>,
       <<"  +---+", "  |   |", "  O   |", "      |", "      |", "      |", "=========">>,
       <<"  +---+", "  |   |", "  O   |", "  |   |", "      |", "      |", "=========">>,
       <<"  +---+", "  |   |", "  O   |", " /|   |", "      |", "      |", "=========">>,
       <<"  +---+", "  |   |", "  O   |", " /|\\  |", "      |", "      |", "=========">>,
       <<"  +---+", "  |   |", "  O   |", " /|\\  |", " /    |", "      |", "=========">>,
       <<"  +---+", "  |   |", "  O   |", " /|\\  |", " / \\  |", "      |", "=========">> >>

\* Faulty variant of draw_hangman: the picture is chosen by the argument, stages[stage]
draw_hangman_by_stage(stage, a) ==
    IF stage >= 0 - Len(stages) /\ stage < Len(stages)
    THEN [raises |-> "", index |-> IF stage < 0 THEN stage + Len(stages) ELSE stage]
    ELSE [raises |-> "IndexError", index |-> -1]

\* draw_hangman(stage) with attempts_left = a: the index (from 0) of the
\* picture that stages[self.max_attempts - self.attempts_left] selects; the
\* argument is not used.  A list index i is valid when -len <= i < len, and
\* a negative one counts from the end.
draw_hangman(stage, a) ==
    LET i == max_attempts - a
    IN  IF i >= 0 - Len(stages) /\ i < Len(stages)
        THEN [raises |-> "", index |-> IF i < 0 THEN i + Len(stages) ELSE i]
        ELSE [raises |-> "IndexError", index |-> -1]

\* Faulty variant of display_word: a guessed letter is revealed only where it
\* occurs first in the word
display_word_first_only(w, g) ==
    [i \in 1..(2 * Len(w)) |->
        IF i % 2 = 0 THEN 32
        ELSE IF w[(i + 1) \div 2] \in g
                /\ \A k \in 1..((i + 1) \div 2 - 1) : w[k] # w[(i + 1) \div 2]
             THEN w[(i + 1) \div 2]
             ELSE 95]

\* display_word's string `display` for word w and guessed letters g: for
\* each letter of the word, in order, the letter or '_', and a blank
RECURSIVE display_word(_, _)
display_word(w, g) ==
    IF w = <<>> THEN <<>>
    ELSE (IF Head(w) \in g THEN <<Head(w), 32>> ELSE <<95, 32>>)
         \o display_word(Tail(w), g)

\* nothing drawn yet
Blank == [hangman |-> -1, word |-> <<>>]

\* the loop's redraw: clear_screen, draw_hangman, display_word (the guessed
\* letters and the attempts are drawn too)
Redraw(w, g, a) ==
    [hangman |-> draw_hangman(a, a).index, word |-> display_word(w, g)]

\* the screen of a lost round: clear_screen, draw_hangman(self.max_attempts)
GameOverScreen(a) ==
    [hangman |-> draw_hangman(max_attempts, a).index, word |-> <<>>]

----------------------------------------------------------------------------
(* What the peer types.  In a round: any letter of the target word, any    *)
(* letter already guessed, and any of the first WrongChoice letters of the *)
(* alphabet that are neither (so the letters outside the word arrive       *)
(* roughly in alphabetical order, interleaved in every way with the        *)
(* letters of the word); each in either case; and some bytes that are no   *)
(* letters.                                                                *)

NonLetters == {13, 49, 64, 91, 96, 123, 233}

NextWrong(w, g) ==
    LET cand == {c \in 65..90 : c \notin Letters(w) /\ c \notin g}
    IN  {c \in cand : Cardinality({d \in cand : d < c}) < WrongChoice}

GuessKeys(w, g) ==
    LET up == Letters(w) \cup g \cup NextWrong(w, g)
    IN  up \cup {c + 32 : c \in up} \cup NonLetters

ReplayKeys == {89, 121, 78, 110, 65, 113} \cup NonLetters

----------------------------------------------------------------------------
(* The Connection.  A send is accepted while the transport has not yet     *)
(* seen the peer gone for good; any operation may find the peer gone and   *)
(* raise ConnectionError.                                                  *)

\* the operations of this step succeed and the session goes on at `next`
Ok(next) ==
    /\ link # "dead"
    /\ pc' = next
    /\ link' = link
    /\ lost' = lost

\* an operation of kind `op` raises ConnectionError; its handler leads to `next`
Raise(op, next) ==
    /\ pc' = next
    /\ link' = "dead"
    /\ lost' = IF lost = "none" THEN op ELSE lost

\* bookkeeping: the step attempts operations of kind `op` on the Connection
Attempt(op) ==
    /\ afterLost' = IF lost # "none" THEN afterLost \cup {op} ELSE afterLost
    /\ afterClose' = IF open THEN afterClose ELSE afterClose \cup {op}

----------------------------------------------------------------------------
(* The game session. *)

\* run_game up to the first play_round: clear screen and greeting
Welcome ==
    /\ prog = "game" /\ pc = "welcome"
    /\ Attempt("send")
    /\ \/ Ok("round_start")
       \/ Raise("send", "close")
    /\ UNCHANGED <<process, cursor, display, prog, transport, open, closeCalls, round, demo>>

\* Faulty variant of LoopHead: `while self.attempts_left >= 0`
LoopHeadOffByOne(w, g, a, sd, sc) ==
    IF a >= 0
    THEN IF draw_hangman(a, a).raises # ""
         THEN pc' = "close" /\ link' = link /\ lost' = lost
              /\ said' = sd /\ screen' = sc
         ELSE IF WinCondition(w, g)
              THEN \/ Ok("won") /\ said' = sd \cup {"won"} /\ screen' = Redraw(w, g, a)
                   \/ Raise("send", "close") /\ said' = sd /\ screen' = sc
              ELSE \/ Ok("guess") /\ said' = sd /\ screen' = Redraw(w, g, a)
                   \/ Raise("send", "close") /\ said' = sd /\ screen' = sc
                   \/ Raise("send", "farewell") /\ said' = sd /\ screen' = Redraw(w, g, a)
    ELSE pc' = "lost" /\ link' = link /\ lost' = lost /\ said' = sd /\ screen' = sc

\* One pass of `while self.attempts_left > 0` from its test to get_input's
\* first receive, for target w, guessed letters g and attempts a; sd and sc
\* are the messages sent and the screen drawn in the round so far.
LoopHead(w, g, a, sd, sc) ==
    IF a > 0
    THEN IF draw_hangman(a, a).raises # ""
         THEN \* IndexError, caught by run_game's `except Exception`
              pc' = "close" /\ link' = link /\ lost' = lost
              /\ said' = sd /\ screen' = sc
         ELSE IF WinCondition(w, g)
              THEN \* redraw, "Congratulations! You won!", break
                   \/ Ok("won") /\ said' = sd \cup {"won"} /\ screen' = Redraw(w, g, a)
                   \/ Raise("send", "close") /\ said' = sd /\ screen' = sc
              ELSE \* redraw, "Enter a letter: "
                   \/ Ok("guess") /\ said' = sd /\ screen' = Redraw(w, g, a)
                   \* a redraw send raises
                   \/ Raise("send", "close") /\ said' = sd /\ screen' = sc
                   \* get_input's prompt raises: return False
                   \/ Raise("send", "farewell") /\ said' = sd /\ screen' = Redraw(w, g, a)
    ELSE pc' = "lost" /\ link' = link /\ lost' = lost /\ said' = sd /\ screen' = sc

\* Faulty variant of StartRound: self.guessed_letters is not reset
StartRoundKeepsLetters ==
    /\ prog = "game" /\ pc = "round_start"
    /\ Attempt("send")
    /\ \/ /\ Raise("send", "close")
          /\ UNCHANGED <<round, display>>
       \/ \E k \in 1..Len(animals) :
            /\ current_animal' = animals[k]
            /\ guessed_letters' = guessed_letters
            /\ attempts_left' = max_attempts
            /\ echo' = NoEcho
            /\ link # "dead"
            /\ LoopHead(animals[k], guessed_letters, max_attempts, {}, screen)
    /\ UNCHANGED <<process, cursor, prog, transport, open, closeCalls, demo>>

\* play_round's start: clear screen, choose the word, reset the round
StartRound ==
    /\ prog = "game" /\ pc = "round_start"
    /\ Attempt("send")
    /\ \/ /\ Raise("send", "close")           \* the first clear_screen raises
          /\ UNCHANGED <<round, display>>
       \/ \E k \in 1..Len(animals) :
            /\ current_animal' = animals[k]
            /\ guessed_letters' = {}
            /\ attempts_left' = max_attempts
            /\ echo' = NoEcho
            /\ link # "dead"
            /\ LoopHead(animals[k], {}, max_attempts, {}, screen)
    /\ UNCHANGED <<process, cursor, prog, transport, open, closeCalls, demo>>

\* Faulty variant of GuessByte: no `if guess in self.guessed_letters: continue`, so
\* a letter guessed before is counted again
GuessByteCountsRepeats(b) ==
    /\ prog = "game" /\ pc = "guess" /\ link = "up"
    /\ LET char == upper(b) IN
       IF ~IsLetter(char)
       THEN UNCHANGED vars                    \* not a letter: receive again
       ELSE /\ Attempt("recv")
            /\ \/ /\ Raise("send", "farewell")    \* the echo raises: return False
                  /\ UNCHANGED <<round, display>>
               \/ LET g == guessed_letters \cup {char}
                      a == IF char \notin Letters(current_animal)
                           THEN attempts_left - 1
                           ELSE attempts_left
                  IN  /\ echo' = Answered(b)
                      /\ guessed_letters' = g
                      /\ attempts_left' = a
                      /\ current_animal' = current_animal
                      /\ IF char \notin Letters(current_animal) /\ a = 0
                         THEN \/ /\ link # "dead"
                                 /\ LoopHead(current_animal, g, a,
                                             said \cup {"over"}, GameOverScreen(a))
                              \/ /\ Raise("send", "close")
                                 /\ UNCHANGED <<said, screen>>
                         ELSE LoopHead(current_animal, g, a, said, screen)
            /\ UNCHANGED <<process, cursor, prog, transport, open, closeCalls, demo>>

\* Faulty variant of GuessByte: a byte that is no letter costs an attempt
GuessByteChargesJunk(b) ==
    /\ prog = "game" /\ pc = "guess" /\ link = "up"
    /\ LET char == upper(b) IN
       IF ~IsLetter(char)
       THEN /\ Attempt("recv")
            /\ attempts_left > 1
            /\ attempts_left' = attempts_left - 1
            /\ UNCHANGED <<current_animal, guessed_letters, display, pc, link, lost>>
            /\ UNCHANGED <<process, cursor, prog, transport, open, closeCalls, demo>>
       ELSE /\ Attempt("recv")
            /\ \/ /\ Raise("send", "farewell")
                  /\ UNCHANGED <<round, display>>
               \/ IF char \in guessed_letters
                  THEN /\ UNCHANGED round
                       /\ echo' = Answered(b)
                       /\ LoopHead(current_animal, guessed_letters, attempts_left,
                                   said, screen)
                  ELSE LET g == guessed_letters \cup {char}
                           a == IF char \notin Letters(current_animal)
                                THEN attempts_left - 1
                                ELSE attempts_left
                       IN  /\ echo' = Answered(b)
                           /\ guessed_letters' = g
                           /\ attempts_left' = a
                           /\ current_animal' = current_animal
                           /\ IF char \notin Letters(current_animal) /\ a = 0
                              THEN \/ /\ link # "dead"
                                      /\ LoopHead(current_animal, g, a,
                                                  said \cup {"over"}, GameOverScreen(a))
                                   \/ /\ Raise("send", "close")
                                      /\ UNCHANGED <<said, screen>>
                              ELSE LoopHead(current_animal, g, a, said, screen)
            /\ UNCHANGED <<process, cursor, prog, transport, open, closeCalls, demo>>

\* get_input receives byte b; the round goes on to its next receive
GuessByte(b) ==
    /\ prog = "game" /\ pc = "guess" /\ link = "up"
    /\ LET char == upper(b) IN
       IF ~IsLetter(char)
       THEN UNCHANGED vars                    \* not a letter: receive again
       ELSE /\ Attempt("recv")
            /\ \/ /\ Raise("send", "farewell")    \* the echo raises: return False
                  /\ UNCHANGED <<round, display>>
               \/ IF char \in guessed_letters
                  THEN /\ UNCHANGED round         \* continue
                       /\ echo' = Answered(b)
                       /\ LoopHead(current_animal, guessed_letters, attempts_left,
                                   said, screen)
                  ELSE LET g == guessed_letters \cup {char}
                           a == IF char \notin Letters(current_animal)
                                THEN attempts_left - 1
                                ELSE attempts_left
                       IN  /\ echo' = Answered(b)
                           /\ guessed_letters' = g
                           /\ attempts_left' = a
                           /\ current_animal' = current_animal
                           /\ IF char \notin Letters(current_animal) /\ a = 0
                              THEN \* final hangman, "Game Over!", then the loop test
                                   \/ /\ link # "dead"
                                      /\ LoopHead(current_animal, g, a,
                                                  said \cup {"over"}, GameOverScreen(a))
                                   \/ /\ Raise("send", "close")
                                      /\ UNCHANGED <<said, screen>>
                              ELSE LoopHead(current_animal, g, a, said, screen)
            /\ UNCHANGED <<process, cursor, prog, transport, open, closeCalls, demo>>

\* get_input's receive returns b'': get_input raises ConnectionError itself
GuessEmpty ==
    /\ prog = "game" /\ pc = "guess"
    /\ transport = "telnet" /\ link = "up"
    /\ Attempt("recv")
    /\ pc' = "farewell"
    /\ link' = "eof"
    /\ lost' = "eof"
    /\ UNCHANGED <<process, cursor, display, prog, transport, open, closeCalls, round, demo>>

\* get_input's receive raises ConnectionError: play_round returns False
GuessError ==
    /\ prog = "game" /\ pc = "guess" /\ link = "up"
    /\ Attempt("recv")
    /\ Raise("recv", "farewell")
    /\ UNCHANGED <<process, cursor, display, prog, transport, open, closeCalls, round, demo>>

\* Faulty variant of AskReplay: only a won round is followed by the replay
\* prompt, a lost round ends the session
AskReplayWinnersOnly ==
    /\ prog = "game" /\ pc \in {"won", "lost"}
    /\ Attempt("send")
    /\ \/ Ok(IF pc = "won" THEN "replay" ELSE "farewell")
       \/ Raise("send", "close")
    /\ UNCHANGED <<process, cursor, display, prog, transport, open, closeCalls, round, demo>>

\* after the loop: "Play again? (Y/N): "
AskReplay ==
    /\ prog = "game" /\ pc \in {"won", "lost"}
    /\ Attempt("send")
    /\ \/ Ok("replay")
       \/ Raise("send", "close")
    /\ UNCHANGED <<process, cursor, display, prog, transport, open, closeCalls, round, demo>>

\* Faulty variant of ReplayByte: `else: return False` in place of `elif response == b'N'`
ReplayByteElseNo(b) ==
    /\ prog = "game" /\ pc = "replay" /\ link = "up"
    /\ pc' = (IF upper(b) = 89 THEN "round_start" ELSE "farewell")
    /\ Attempt("recv")
    /\ UNCHANGED <<process, cursor, display, prog, transport, link, open, closeCalls, round, lost, demo>>

\* the replay loop receives byte b
ReplayByte(b) ==
    /\ prog = "game" /\ pc = "replay" /\ link = "up"
    /\ LET response == upper(b) IN
       IF response = 89                       \* b'Y': return True
       THEN pc' = "round_start"
       ELSE IF response = 78                  \* b'N': return False
            THEN pc' = "farewell"
            ELSE pc' = pc
    /\ Attempt("recv")
    /\ UNCHANGED <<process, cursor, display, prog, transport, link, open, closeCalls, round, lost, demo>>

\* the replay loop's receive returns b'' (the peer has closed its end):
\* b''.upper() is neither b'Y' nor b'N'
ReplayEmpty ==
    /\ prog = "game" /\ pc = "replay"
    /\ transport = "telnet" /\ link \in {"up", "eof"}
    /\ Attempt("recv")
    /\ link' = "eof"
    /\ UNCHANGED <<process, cursor, display, prog, transport, open, closeCalls, pc, round, lost, demo>>

\* the replay loop's receive raises ConnectionError: return False
ReplayError ==
    /\ prog = "game" /\ pc = "replay" /\ link = "up"
    /\ Attempt("recv")
    /\ Raise("recv", "farewell")
    /\ UNCHANGED <<process, cursor, display, prog, transport, open, closeCalls, round, demo>>

\* run_game after the last play_round: clear screen, "Thanks for playing!"
Farewell ==
    /\ prog = "game" /\ pc = "farewell"
    /\ Attempt("send")
    /\ \/ Ok("close")
       \/ Raise("send", "close")
    /\ UNCHANGED <<process, cursor, display, prog, transport, open, closeCalls, round, demo>>

(* The demo's script: every connection.send of VT52Demo.run_demo, in       *)
(* program order.  A payload is raw bytes, or text (str.encode()), or text *)
(* with one formatted number.                                              *)

Raw(bytes) == [raw |-> bytes, text |-> "", arg |-> -1]
Txt(t) == [raw |-> <<>>, text |-> t, arg |-> -1]
Fmt(t, n) == [raw |-> <<>>, text |-> t, arg |-> n]

RECURSIVE Concat(_)
Concat(ss) == IF ss = <<>> THEN <<>> ELSE Head(ss) \o Concat(Tail(ss))

\* for _ in range(n): body
Repeat(n, body) == Concat([i \in 1..n |-> body])

\* ESC + CURSOR_POS + bytes([row + 31]) + bytes([col + 31])
\* bytes([n]) raises ValueError unless 0 <= n < 256
bytes(ns) ==
    IF \A i \in 1..Len(ns) : ns[i] >= 0 /\ ns[i] < 256
    THEN [raises |-> "", value |-> ns]
    ELSE [raises |-> "ValueError", value |-> <<>>]

\* Faulty variant of position_cursor: the two coordinates are reduced modulo 256
\* (as a cast to a byte would) and nothing is ever raised
position_cursor_wraps(r, c) ==
    Raw(<<ESC, CURSOR_POS, (r + 31) % 256, (c + 31) % 256>>)

\* Faulty variant of position_cursor: 0-based, bytes([row + 32]) + bytes([col + 32])
position_cursor_from_0(r, c) ==
    IF bytes(<<r + 32>>).raises # "" \/ bytes(<<c + 32>>).raises # ""
    THEN [raises |-> "ValueError"]
    ELSE Raw(<<ESC, CURSOR_POS>> \o bytes(<<r + 32>>).value \o bytes(<<c + 32>>).value)

\* self.connection.send(ESC + CURSOR_POS + bytes([row + 31]) + bytes([col + 31])):
\* the payload sent, or the exception raised before anything is sent
position_cursor(r, c) ==
    IF bytes(<<r + 31>>).raises # "" \/ bytes(<<c + 31>>).raises # ""
    THEN [raises |-> "ValueError"]
    ELSE Raw(<<ESC, CURSOR_POS>> \o bytes(<<r + 31>>).value \o bytes(<<c + 31>>).value)

home_and_erase == <<Raw(<<ESC, CURSOR_HOME>>), Raw(<<ESC, ERASE_SCREEN>>)>>

\* for line in welcome.split('\n'): send(line.encode() + b'\r\n')
welcome_lines ==
    << Txt("\r\n"),
       Txt("            **** VT52 Terminal Test Suite ****\r\n"),
       Txt("            \r\n"),
       Txt("            Testing implemented features:\r\n"),
       Txt("            - Control characters (BS, LF, CR, TAB)\r\n"),
       Txt("            - Cursor positioning (abs/rel)\r\n"),
       Txt("            - Erase functions (EOL/screen)\r\n"),
       Txt("            - Hardware scroll behavior\r\n"),
       Txt("            - Box drawing\r\n"),
       Txt("            \r\n"),
       Txt("            Starting in 3 seconds...\r\n"),
       Txt("            \r\n") >>

test_control_chars ==
    home_and_erase \o
    << position_cursor(1, 1),
       Txt("Control Characters Test:\r\n\n"),
       Txt("Backspace Test: "),
       Txt("ABC"),
       Raw(<<8>>),
       Raw(<<8>>),
       Txt("XY"),
       Txt("\r\n"),
       Txt("LF/CR Test:\r\n"),
       Txt("First"),
       Txt("\n"),
       Txt("Second"),
       Txt("\r"),
       Txt("Third"),
       Txt("\r\n\n"),
       Txt("Tab Test:\r\n"),
       Txt("1\t2\t3\t4") >>

test_cursor_positioning ==
    home_and_erase \o
    << position_cursor(1, 1),
       Txt("Cursor Positioning Test:\r\n\n"),
       Txt("Testing absolute cursor positioning...\r\n") >> \o
    Concat([k \in 1..6 |->
        LET positions == << <<5, 10>>, <<5, 30>>, <<10, 10>>,
                            <<10, 30>>, <<15, 10>>, <<15, 30>> >>
        IN  <<position_cursor(positions[k][1], positions[k][2]), Txt("X")>>]) \o
    << position_cursor(12, 20), Txt("O") >> \o
    Repeat(3, <<Raw(<<ESC, CURSOR_UP>>), Txt("^")>>) \o
    Repeat(3, <<Raw(<<ESC, CURSOR_RIGHT>>), Txt(">")>>) \o
    Repeat(3, <<Raw(<<ESC, CURSOR_DOWN>>), Txt("v")>>) \o
    Repeat(3, <<Raw(<<ESC, CURSOR_LEFT>>), Txt("<")>>)

test_erase_functions ==
    home_and_erase \o
    << position_cursor(1, 1),
       Txt("Erase Functions Test:\r\n\n") >> \o
    Concat([k \in 1..15 |->                       \* for y in range(5, 20)
        LET y == k + 4
        IN  <<position_cursor(y, 1),
              Fmt("Line {y:02d}: Testing erase functions...", y)>>]) \o
    << Txt("\r\nTesting Erase to End of Line (ESC K):"),
       position_cursor(10, 20),
       Raw(<<ESC, ERASE_TO_EOL>>),
       position_cursor(10, 40),
       Txt("<-- Erased to here"),
       Txt("\r\nTesting Erase Screen (ESC J) - should home cursor:"),
       position_cursor(15, 20),
       Raw(<<ESC, ERASE_SCREEN>>),
       Txt("This should be at home position (1,1)") >>

test_scroll_behavior ==
    home_and_erase \o
    << position_cursor(1, 1),
       Txt("Scroll Behavior Test:\r\n\n") >> \o
    home_and_erase \o
    Concat([i \in 1..22 |->                       \* for i in range(1, 23)
        <<position_cursor(i, 1), Fmt("Line {i:02d}: test content", i)>>]) \o
    << Txt("\r\nTesting forward scroll...") >> \o
    home_and_erase \o
    << position_cursor(22, 1) >> \o
    [k \in 1..7 |->                               \* for i in range(7)
        Fmt("New line {i} - testing scroll\r\n", k - 1)] \o
    << Raw(<<ESC, ERASE_SCREEN>>),
       Txt("Testing reverse scroll (ESC I):\r\n"),
       position_cursor(10, 1) >> \o
    Concat([k \in 1..5 |->                        \* for i in range(5)
        <<Raw(<<ESC, REVERSE_LINEFEED>>),
          Fmt("Reverse scroll line {i+1}\r", k)>>])

demo_cursor_movement ==
    home_and_erase \o
    << position_cursor(1, 1),
       Txt("Box Drawing Demo:\r\n\n"),
       position_cursor(5, 10) >> \o
    Repeat(10, <<Txt("*")>>) \o
    Repeat(5, <<Raw(<<ESC, CURSOR_DOWN>>), Raw(<<ESC, CURSOR_LEFT>>), Txt("*")>>) \o
    Repeat(10, <<Raw(<<ESC, CURSOR_LEFT>>), Raw(<<ESC, CURSOR_LEFT>>), Txt("*")>>) \o
    Repeat(5, <<Raw(<<ESC, CURSOR_UP>>), Raw(<<ESC, CURSOR_LEFT>>), Txt("*")>>)

\* self.position_cursor(22, 1); send(b'\r3 seconds to continue...')
pause_notice == <<position_cursor(22, 1), Txt("\r3 seconds to continue...")>>

\* for line in summary.split('\n'): send(line.encode() + b'\r\n')
summary_lines ==
    << Txt("\r\n"),
       Txt("            Test Summary:\r\n"),
       Txt("            - Control Characters\r\n"),
       Txt("            - Cursor Positioning\r\n"),
       Txt("            - Erase Functions\r\n"),
       Txt("            - Hardware Scroll Operations\r\n"),
       Txt("            - Box Drawing\r\n"),
       Txt("            \r\n"),
       Txt("            Tests complete! Connection will close in 5 seconds.\r\n"),
       Txt("            \r\n") >>

\* the sends of one phase, each marked with the phase that issues it
InPhase(name, sends) ==
    [i \in 1..Len(sends) |-> [phase |-> name, data |-> sends[i]]]

\* the body of run_demo's try block
run_demo ==
    << InPhase("welcome", home_and_erase \o welcome_lines),
       InPhase("control", test_control_chars \o pause_notice),
       InPhase("cursor", test_cursor_positioning \o pause_notice),
       InPhase("erase", test_erase_functions \o pause_notice),
       InPhase("scroll", test_scroll_behavior \o pause_notice),
       InPhase("box", demo_cursor_movement \o pause_notice),
       InPhase("summary", home_and_erase \o <<position_cursor(1, 1)>>
                           \o summary_lines) >>

DemoScript == Concat(run_demo)

----------------------------------------------------------------------------
(* The demo session. *)

\* Faulty variant of DemoStep: a byte typed by the peer is read and makes the demo
\* skip its next send
DemoStepSkipsOnKey ==
    /\ prog = "demo" /\ pc = "demo"
    /\ Attempt("send")
    /\ \/ /\ unread = 0
          /\ Ok(IF dpc = Len(DemoScript) THEN "close" ELSE "demo")
          /\ wire' = Append(wire, DemoScript[dpc])
          /\ dpc' = dpc + 1
          /\ unread' = unread
       \/ /\ unread > 0
          /\ Ok(IF dpc = Len(DemoScript) THEN "close" ELSE "demo")
          /\ wire' = wire
          /\ dpc' = dpc + 1
          /\ unread' = unread - 1
       \/ /\ Raise("send", "close")
          /\ UNCHANGED <<dpc, wire, unread>>
    /\ UNCHANGED <<process, cursor, display, prog, transport, open, closeCalls, round>>

\* Faulty variant of DemoStep: a send that raises ConnectionError is tried again
DemoStepRetries ==
    /\ prog = "demo" /\ pc = "demo"
    /\ Attempt("send")
    /\ \/ /\ Ok(IF dpc = Len(DemoScript) THEN "close" ELSE "demo")
          /\ wire' = Append(wire, DemoScript[dpc])
          /\ dpc' = dpc + 1
       \/ /\ Raise("send", "demo")
          /\ UNCHANGED <<dpc, wire>>
    /\ UNCHANGED <<process, cursor, display, prog, transport, open, closeCalls, round, unread>>

\* Faulty variant of DemoStep: "press a key to continue" before each new phase
DemoStepWaitsForKey ==
    /\ prog = "demo" /\ pc = "demo"
    /\ (dpc > 1 /\ DemoScript[dpc].phase # DemoScript[dpc - 1].phase) => unread > 0
    /\ Attempt("send")
    /\ \/ /\ Ok(IF dpc = Len(DemoScript) THEN "close" ELSE "demo")
          /\ wire' = Append(wire, DemoScript[dpc])
          /\ dpc' = dpc + 1
       \/ /\ Raise("send", "close")
          /\ UNCHANGED <<dpc, wire>>
    /\ UNCHANGED <<process, cursor, display, prog, transport, open, closeCalls, round, unread>>

\* the next connection.send of run_demo; after the last one, or when one
\* raises ConnectionError, control reaches the finally clause
DemoStep ==
    /\ prog = "demo" /\ pc = "demo"
    /\ Attempt("send")
    /\ \/ /\ Ok(IF dpc = Len(DemoScript) THEN "close" ELSE "demo")
          /\ wire' = Append(wire, DemoScript[dpc])
          /\ dpc' = dpc + 1
       \/ /\ Raise("send", "close")
          /\ UNCHANGED <<dpc, wire>>
    /\ UNCHANGED <<process, cursor, display, prog, transport, open, closeCalls, round, unread>>

\* the peer types a byte while the demo runs; nothing reads it
PeerType ==
    /\ prog = "demo" /\ pc = "demo" /\ link = "up"
    /\ unread < MaxUnread
    /\ unread' = unread + 1
    /\ UNCHANGED <<process, cursor, display, prog, transport, link, open, closeCalls, pc, round,
                   lost, afterLost, afterClose, dpc, wire>>

\* Faulty variant of Close: the close sits at the end of the try body, not in a
\* finally clause, so it is skipped when a ConnectionError was raised
CloseOnSuccessOnly ==
    /\ pc = "close"
    /\ open' = (IF lost = "none" THEN FALSE ELSE open)
    /\ closeCalls' = (IF lost = "none" THEN closeCalls + 1 ELSE closeCalls)
    /\ pc' = "done"
    /\ UNCHANGED <<process, cursor, display, prog, transport, link, round, lost, afterLost, afterClose, demo>>

\* Faulty variant of close: the port or socket is closed without looking at its
\* state, by a call that fails on one that is closed already
close_unguarded(tr, is_open) ==
    IF is_open
    THEN [raises |-> "", open |-> FALSE]
    ELSE [raises |-> IF tr = "serial" THEN "SerialException" ELSE "OSError",
          open |-> FALSE]

\* Connection.close() on transport tr, the port or socket being open or not:
\* SerialConnection closes the port only `if self.serial.is_open`;
\* TelnetConnection calls socket.close(), which does nothing to a socket
\* that is closed already
close(tr, is_open) ==
    IF tr = "serial"
    THEN IF is_open
         THEN [raises |-> "", open |-> FALSE]
         ELSE [raises |-> "", open |-> is_open]
    ELSE [raises |-> "", open |-> FALSE]

\* Faulty variant of Close: the Connection is closed before the goodbye message
\* of a game that ends normally is sent
CloseBeforeGoodbye ==
    /\ pc = "close"
    /\ open' = close(transport, open).open
    /\ closeCalls' = closeCalls + 1
    /\ pc' = IF prog = "game" /\ lost = "none" /\ closeCalls = 0
             THEN "farewell" ELSE "done"
    /\ UNCHANGED <<process, cursor, display, prog, transport, link, round, lost, afterLost, afterClose, demo>>

\* finally: self.connection.close()
Close ==
    /\ pc = "close"
    /\ open' = close(transport, open).open
    /\ closeCalls' = closeCalls + 1
    /\ pc' = IF close(transport, open).raises = "" THEN "done" ELSE "failed"
    /\ UNCHANGED <<process, cursor, display, prog, transport, link, round, lost, afterLost, afterClose, demo>>

\* Calls of close on one Connection that the model follows.
MaxCloses == 3

\* close is invoked on the Connection once more after the session has closed
\* it: in telnet mode the server framework closes the request's socket when
\* handle() has returned
CloseAgain ==
    /\ pc = "done"
    /\ closeCalls < MaxCloses
    /\ open' = close(transport, open).open
    /\ closeCalls' = closeCalls + 1
    /\ pc' = IF close(transport, open).raises = "" THEN "done" ELSE "failed"
    /\ UNCHANGED <<process, cursor, display, prog, transport, link, round, lost, afterLost, afterClose, demo>>

\* Faulty variant of Unexpected: nothing in the worker catches the exception, and
\* it stops the server's accept loop
UnexpectedStopsServer ==
    /\ pc \in {"welcome", "round_start", "guess", "won", "lost", "replay",
               "farewell", "demo"}
    /\ pc' = "close"
    /\ accepting' = FALSE
    /\ UNCHANGED <<args, main, exit_code, telnet_port, listening, cur, parked>>
    /\ UNCHANGED <<cursor, display, prog, transport, link, open, closeCalls, round,
                   lost, afterLost, afterClose, demo>>

\* a statement of run_game / run_demo raises an exception that is not a
\* ConnectionError: `except Exception` reports it and the finally clause
\* follows
Unexpected ==
    /\ pc \in {"welcome", "round_start", "guess", "won", "lost", "replay",
               "farewell", "demo"}
    /\ pc' = "close"
    /\ UNCHANGED <<process, cursor, display, prog, transport, link, open, closeCalls, round,
                   lost, afterLost, afterClose, demo>>

----------------------------------------------------------------------------
(* The process: main(), run_serial_game / run_serial_demo and              *)
(* run_telnet_server.  Both programs have the same main and the same       *)
(* server code.                                                            *)

\* Connections the server accepts in the model.
MaxConn == 2

\* In the process model a round's word has at most this many letters,
ServerWordLen == 3

\* the peer of a game session has at most this many letters accepted,
ServerGuesses == 1

\* and the peer of a demo session is gone after at most this many sends.
ServerSends == 3

Conns == 1..MaxConn

\* '--port' as given on the command line, as character codes; COM9 is the
\* default that argparse supplies when the option is absent
COM9 == <<67, 79, 77, 57>>

PortArgs ==
    { COM9,
      <<56, 48, 50, 51>>,                     \* "8023"
      <<55, 48, 48, 48, 48>>,                 \* "70000"
      <<97, 98, 99>>,                         \* "abc"
      <<50, 51, 97>>,                         \* "23a"
      <<47, 100, 101, 118, 47, 116, 116, 121, 83, 48>>,   \* "/dev/ttyS0"
      <<>> }                                  \* ""

IsDigit(c) == c >= 48 /\ c <= 57

RECURSIVE DecimalValue(_)
DecimalValue(s) ==
    IF s = <<>> THEN 0
    ELSE 10 * DecimalValue(SubSeq(s, 1, Len(s) - 1)) + (s[Len(s)] - 48)

\* int(s) for a str s: an optional sign and decimal digits, ValueError
\* otherwise (the blanks and underscores int() also accepts are not among
\* the inputs)
int(s) ==
    LET signed == s # <<>> /\ Head(s) \in {43, 45}
        digits == IF signed THEN Tail(s) ELSE s
    IN  IF digits = <<>> \/ \E i \in 1..Len(digits) : ~IsDigit(digits[i])
        THEN [raises |-> "ValueError", value |-> 0]
        ELSE [raises |-> "",
              value |-> IF signed /\ Head(s) = 45
                        THEN 0 - DecimalValue(digits)
                        ELSE DecimalValue(digits)]

\* the session the running thread works on, as a value
Saved ==
    [prog |-> prog, transport |-> transport, link |-> link, open |-> open,
     closeCalls |-> closeCalls, pc |-> pc, current_animal |-> current_animal,
     guessed_letters |-> guessed_letters, attempts_left |-> attempts_left,
     lost |-> lost, afterLost |-> afterLost, afterClose |-> afterClose,
     said |-> said, screen |-> screen, echo |-> echo, dpc |-> dpc,
     wire |-> wire,
     unread |-> unread]

\* the running thread works on session s
Load(s) ==
    /\ prog' = s.prog /\ transport' = s.transport /\ link' = s.link
    /\ open' = s.open /\ closeCalls' = s.closeCalls /\ pc' = s.pc
    /\ current_animal' = s.current_animal
    /\ guessed_letters' = s.guessed_letters
    /\ attempts_left' = s.attempts_left
    /\ lost' = s.lost /\ afterLost' = s.afterLost
    /\ afterClose' = s.afterClose /\ said' = s.said /\ screen' = s.screen
    /\ echo' = s.echo
    /\ dpc' = s.dpc /\ wire' = s.wire /\ unread' = s.unread

\* a slot of `parked`: no such thread, the thread that is running, or the
\* session of a thread that is not running
Free == [pc |-> "free"]
Running == [pc |-> "running"]
IsSession(s) == s.pc \notin {"free", "running"}

\* handle(): TelnetConnection(self.request), then AnimalGame(connection) or
\* VT52Demo(connection), about to call run_game() or run_demo()
NewSession ==
    [prog |-> prog, transport |-> "telnet", link |-> "up", open |-> TRUE,
     closeCalls |-> 0, pc |-> IF prog = "game" THEN "welcome" ELSE "demo",
     current_animal |-> <<>>, guessed_letters |-> {},
     attempts_left |-> max_attempts, lost |-> "none", afterLost |-> {},
     afterClose |-> {}, said |-> {}, screen |-> Blank, echo |-> NoEcho,
     dpc |-> 1, wire |-> <<>>, unread |-> 0]

\* every worker thread has returned from handle()
WorkersDone ==
    /\ cur # 0 => pc = "done"
    /\ \A i \in Conns : IsSession(parked[i]) => parked[i].pc = "done"

\* Faulty variant of ParseArgs: a '--port' that is no number falls back to 2323
ParseArgsFallsBack ==
    /\ main = "parse"
    /\ IF args.mode = "serial"
       THEN /\ main' = "serial_open"
            /\ UNCHANGED <<exit_code, telnet_port>>
       ELSE /\ telnet_port' = (IF int(args.port).raises = "ValueError"
                               THEN 2323
                               ELSE int(args.port).value)
            /\ main' = "bind"
            /\ exit_code' = exit_code
    /\ UNCHANGED <<session, cursor, args, listening, accepting, cur, parked>>

\* main(): parse_args and the branch on args.mode
ParseArgs ==
    /\ main = "parse"
    /\ IF args.mode = "serial"
       THEN /\ main' = "serial_open"
            /\ UNCHANGED <<exit_code, telnet_port>>
       ELSE IF args.port = COM9
            THEN /\ telnet_port' = 2323
                 /\ main' = "bind"
                 /\ exit_code' = exit_code
            ELSE IF int(args.port).raises = "ValueError"
                 THEN \* "Error: Telnet port must be a number", return
                      /\ main' = "exit"
                      /\ exit_code' = 0
                      /\ telnet_port' = telnet_port
                 ELSE /\ telnet_port' = int(args.port).value
                      /\ main' = "bind"
                      /\ exit_code' = exit_code
    /\ UNCHANGED <<session, cursor, args, listening, accepting, cur, parked>>

\* run_serial_game / run_serial_demo: SerialConnection(port, baudrate) opens
\* the line and the session starts, or serial.Serial raises SerialException,
\* which is caught and printed, and the function returns
SerialOpen ==
    /\ main = "serial_open"
    /\ \/ /\ open' = TRUE
          /\ pc' = (IF prog = "game" THEN "welcome" ELSE "demo")
          /\ main' = "session"
          /\ exit_code' = exit_code
       \/ /\ main' = "exit"
          /\ exit_code' = 0
          /\ UNCHANGED <<open, pc>>
    /\ UNCHANGED <<cursor, prog, transport, link, closeCalls, round, lost,
                   afterLost, afterClose, display, demo, args, telnet_port,
                   listening, accepting,
                   cur, parked>>

\* run_game() / run_demo() has returned in serial mode: main returns
SerialDone ==
    /\ main = "session" /\ pc = "done"
    /\ main' = "exit"
    /\ exit_code' = 0
    /\ UNCHANGED <<session, cursor, args, telnet_port, listening, accepting,
                   cur, parked>>

\* run_telnet_server: ThreadedTCPServer((host, port), ...) binds and listens
\* and serve_forever is started in its thread; or the constructor raises
\* (port outside 0..65535, address in use), which nothing catches
Bind ==
    /\ main = "bind"
    /\ \/ /\ telnet_port >= 0 /\ telnet_port <= 65535
          /\ listening' = TRUE
          /\ accepting' = TRUE
          /\ main' = "serving"
          /\ exit_code' = exit_code
       \/ /\ main' = "exit"
          /\ exit_code' = 1
          /\ UNCHANGED <<listening, accepting>>
    /\ UNCHANGED <<session, cursor, args, telnet_port, cur, parked>>

\* serve_forever accepts a connection and starts a thread for it, which
\* enters handle(); connections are numbered in the order they arrive
Accept(i) ==
    /\ accepting /\ listening
    /\ parked[i] = Free
    /\ IF i = 1 THEN TRUE ELSE parked[i - 1] # Free
    /\ parked' = [parked EXCEPT ![i] = NewSession]
    /\ UNCHANGED <<session, cursor, args, main, exit_code, telnet_port,
                   listening, accepting, cur>>

\* Faulty variant of Switch: one AnimalGame object serves every connection,
\* so the round does not change with the thread
SwitchSharedGame(j) ==
    /\ j # cur
    /\ IsSession(parked[j]) /\ parked[j].pc # "done"
    /\ Load([parked[j] EXCEPT !.current_animal = current_animal,
                              !.guessed_letters = guessed_letters,
                              !.attempts_left = attempts_left])
    /\ cur' = j
    /\ parked' = [i \in Conns |-> IF i = j THEN Running
                                  ELSE IF i = cur THEN Saved
                                  ELSE parked[i]]
    /\ UNCHANGED <<cursor, args, main, exit_code, telnet_port, listening,
                   accepting>>

\* the interpreter switches to worker thread j, which has not finished; each
\* thread works on the TelnetConnection and the AnimalGame or VT52Demo that
\* its own handle() created
Switch(j) ==
    /\ j # cur
    /\ IsSession(parked[j]) /\ parked[j].pc # "done"
    /\ Load(parked[j])
    /\ cur' = j
    /\ parked' = [i \in Conns |-> IF i = j THEN Running
                                  ELSE IF i = cur THEN Saved
                                  ELSE parked[i]]
    /\ UNCHANGED <<cursor, args, main, exit_code, telnet_port, listening,
                   accepting>>

\* Ctrl+C while the main thread sleeps in `while True: time.sleep(1)`
Interrupt ==
    /\ main = "serving"
    /\ main' = "shutdown"
    /\ UNCHANGED <<session, cursor, args, exit_code, telnet_port, listening,
                   accepting, cur, parked>>

\* server.shutdown(): serve_forever returns, no further accept
Shutdown ==
    /\ main = "shutdown"
    /\ accepting' = FALSE
    /\ main' = "server_close"
    /\ UNCHANGED <<session, cursor, args, exit_code, telnet_port, listening,
                   cur, parked>>

\* server.server_close(), first half: the listening socket is closed
ServerClose ==
    /\ main = "server_close"
    /\ listening' = FALSE
    /\ main' = "join"
    /\ UNCHANGED <<session, cursor, args, exit_code, telnet_port, accepting,
                   cur, parked>>

\* server.server_close(), second half: ThreadedTCPServer keeps ThreadingMixIn's
\* daemon_threads = False and block_on_close = True, so server_close joins
\* every worker thread; then "Server stopped" and main returns
JoinWorkers ==
    /\ main = "join"
    /\ WorkersDone
    /\ main' = "exit"
    /\ exit_code' = 0
    /\ UNCHANGED <<session, cursor, args, telnet_port, listening, accepting,
                   cur, parked>>

----------------------------------------------------------------------------
(* position_cursor on its own. *)

\* VT52 screen positions, and arguments on and beyond the edges of what
\* bytes([n]) accepts
RowArgs == (1..24) \cup {-1000, -32, -31, 0, 25, 224, 225, 1000}
ColArgs == (1..80) \cup {-1000, -32, -31, 0, 81, 224, 225, 1000}

NotCalled == [called |-> FALSE]

\* self.position_cursor(row, col) is called
PositionCursor ==
    /\ cmd = NotCalled
    /\ cmd' = position_cursor(row, col)
    /\ UNCHANGED <<session, process, row, col, trace>>

----------------------------------------------------------------------------

\* a session looked at on its own: the process around it stands still
Standalone ==
    /\ args = [mode |-> transport, port |-> COM9]
    /\ main = "session"
    /\ exit_code = -1
    /\ telnet_port = 0
    /\ listening = FALSE
    /\ accepting = FALSE
    /\ cur = 0
    /\ parked = [i \in Conns |-> Free]

CursorIdle ==
    /\ row = 1 /\ col = 1
    /\ cmd = NotCalled
    /\ trace = FALSE

GameInit ==
    /\ prog = "game"
    /\ transport \in {"serial", "telnet"}
    /\ link = "up"
    /\ open = TRUE
    /\ closeCalls = 0
    /\ pc = "welcome"
    /\ current_animal = <<>>
    /\ guessed_letters = {}
    /\ attempts_left = max_attempts
    /\ lost = "none"
    /\ afterLost = {}
    /\ afterClose = {}
    /\ said = {}
    /\ echo = NoEcho
    /\ screen = Blank
    /\ dpc = 1
    /\ wire = <<>>
    /\ unread = 0
    /\ Standalone /\ CursorIdle

\* a game session whose get_input is followed byte by byte
EchoInit ==
    /\ prog = "game"
    /\ transport \in {"serial", "telnet"}
    /\ link = "up"
    /\ open = TRUE
    /\ closeCalls = 0
    /\ pc = "welcome"
    /\ current_animal = <<>>
    /\ guessed_letters = {}
    /\ attempts_left = max_attempts
    /\ lost = "none"
    /\ afterLost = {}
    /\ afterClose = {}
    /\ said = {}
    /\ echo = NoEcho
    /\ screen = Blank
    /\ dpc = 1
    /\ wire = <<>>
    /\ unread = 0
    /\ Standalone
    /\ row = 1 /\ col = 1
    /\ cmd = NotCalled
    /\ trace = TRUE

DemoInit ==
    /\ prog = "demo"
    /\ transport \in {"serial", "telnet"}
    /\ link = "up"
    /\ open = TRUE
    /\ closeCalls = 0
    /\ pc = "demo"
    /\ current_animal = <<>>
    /\ guessed_letters = {}
    /\ attempts_left = max_attempts
    /\ lost = "none"
    /\ afterLost = {}
    /\ afterClose = {}
    /\ said = {}
    /\ echo = NoEcho
    /\ screen = Blank
    /\ dpc = 1
    /\ wire = <<>>
    /\ unread = 0
    /\ Standalone /\ CursorIdle

Init == GameInit \/ DemoInit

GameNext ==
    \/ Welcome
    \/ StartRound
    \/ \E b \in GuessKeys(current_animal, guessed_letters) : GuessByte(b)
    \/ GuessEmpty
    \/ GuessError
    \/ AskReplay
    \/ \E b \in ReplayKeys : ReplayByte(b)
    \/ ReplayEmpty
    \/ ReplayError
    \/ Farewell
    \/ Close

DemoNext ==
    \/ DemoStep
    \/ PeerType
    \/ Close

Next == GameNext \/ DemoNext

\* The session's own thread keeps running: a step that needs nothing from the
\* peer is eventually taken.  A receive on a live link waits for the peer.
SessionStep ==
    \/ Welcome
    \/ StartRound
    \/ AskReplay
    \/ ReplayEmpty /\ link = "eof"
    \/ Farewell
    \/ DemoStep
    \/ Close

Spec == Init /\ [][Next]_vars
FairSpec == Spec /\ WF_vars(SessionStep)

GameSpec == GameInit /\ [][GameNext]_vars
GameFairSpec == GameSpec /\ WF_vars(SessionStep)

\* Length of the words of the rounds in which get_input is followed.
EchoWordLen == 4

\* a step of a game in which get_input is followed
EchoNext ==
    /\ GameNext
    /\ Len(current_animal') <= EchoWordLen

EchoSpec == EchoInit /\ [][EchoNext]_vars

DemoSpec == DemoInit /\ [][DemoNext]_vars
DemoFairSpec == DemoSpec /\ WF_vars(SessionStep)

\* A session on all its ways to the end: the steps of Next, an exception
\* that is not a ConnectionError, and further calls of close after the
\* session's own.
EndNext == Next \/ Unexpected \/ CloseAgain

EndSpec == Init /\ [][EndNext]_vars

\* The process from its start: no Connection and no session exist yet.
ProcInit ==
    /\ prog \in {"game", "demo"}
    /\ args \in [mode : {"serial", "telnet"}, port : PortArgs]
    /\ transport = args.mode
    /\ link = "up"
    /\ open = FALSE
    /\ closeCalls = 0
    /\ pc = "idle"
    /\ current_animal = <<>>
    /\ guessed_letters = {}
    /\ attempts_left = max_attempts
    /\ lost = "none"
    /\ afterLost = {}
    /\ afterClose = {}
    /\ said = {}
    /\ echo = NoEcho
    /\ screen = Blank
    /\ dpc = 1
    /\ wire = <<>>
    /\ unread = 0
    /\ main = "parse"
    /\ exit_code = -1
    /\ telnet_port = 0
    /\ listening = FALSE
    /\ accepting = FALSE
    /\ cur = 0
    /\ parked = [i \in Conns |-> Free]
    /\ CursorIdle

\* the sessions of the process model stay within its bounds
InBounds ==
    /\ Len(current_animal) <= ServerWordLen
    /\ Cardinality(guessed_letters) <= ServerGuesses
    /\ dpc <= ServerSends + 1

\* a step of the session of the serial line, or of the running worker thread
RunSession ==
    /\ main = "session" \/ cur # 0
    /\ GameNext \/ DemoNext
    /\ InBounds'

ProcNext ==
    \/ ParseArgs
    \/ SerialOpen
    \/ SerialDone
    \/ Bind
    \/ \E i \in Conns : Accept(i)
    \/ \E j \in Conns : Switch(j)
    \/ Interrupt
    \/ Shutdown
    \/ ServerClose
    \/ JoinWorkers
    \/ RunSession

\* The main thread keeps running, and so does every worker thread: a thread
\* that can run is eventually scheduled, and a step of it that needs nothing
\* from the peer is eventually taken.
MainStep == ParseArgs \/ SerialOpen \/ SerialDone \/ Bind \/ Shutdown
            \/ ServerClose \/ JoinWorkers

ProcSpec == ProcInit /\ [][ProcNext]_vars

\* an exception that is not a ConnectionError, in the session of the serial
\* line or of the running worker thread
RunUnexpected ==
    /\ main = "session" \/ cur # 0
    /\ Unexpected

\* The process with sessions that may fail in either way.
ProcEndNext == ProcNext \/ RunUnexpected

ProcEndSpec == ProcInit /\ [][ProcEndNext]_vars

ProcFairSpec ==
    /\ ProcSpec
    /\ WF_vars(MainStep)
    /\ \A i \in Conns : SF_vars(Switch(i))
    /\ \A i \in Conns : SF_vars(cur = i /\ RunSession /\ SessionStep)
    /\ WF_vars(main = "session" /\ RunSession /\ SessionStep)

\* position_cursor is called with some arguments, in either program
CursorInit ==
    /\ prog \in {"game", "demo"}
    /\ transport \in {"serial", "telnet"}
    /\ link = "up"
    /\ open = TRUE
    /\ closeCalls = 0
    /\ pc = (IF prog = "game" THEN "welcome" ELSE "demo")
    /\ current_animal = <<>>
    /\ guessed_letters = {}
    /\ attempts_left = max_attempts
    /\ lost = "none"
    /\ afterLost = {}
    /\ afterClose = {}
    /\ said = {}
    /\ echo = NoEcho
    /\ screen = Blank
    /\ dpc = 1
    /\ wire = <<>>
    /\ unread = 0
    /\ Standalone
    /\ row \in RowArgs
    /\ col \in ColArgs
    /\ cmd = NotCalled
    /\ trace = FALSE

CursorNext == PositionCursor

CursorSpec == CursorInit /\ [][CursorNext]_vars

----------------------------------------------------------------------------
(* The session's phase, in the words of the design. *)

PhaseOf(p) ==
    CASE p = "idle" -> "NO_SESSION"
      [] p = "welcome" -> "WELCOME"
      [] p \in {"round_start", "guess"} -> "ROUND_ACTIVE"
      [] p = "won" -> "ROUND_WON"
      [] p = "lost" -> "ROUND_LOST"
      [] p = "replay" -> "REPLAY_PROMPT"
      [] p = "demo" -> "DEMO"
      [] p \in {"farewell", "close"} -> "CLOSING"
      [] p = "done" -> "CLOSED"
      [] p = "failed" -> "FAILED"

Phase == PhaseOf(pc)

\* the session of connection i: its target word, guessed letters, attempts
\* and phase; <<>> while the connection has not been accepted
View(i) ==
    IF cur = i
    THEN <<current_animal, guessed_letters, attempts_left, Phase>>
    ELSE IF IsSession(parked[i])
         THEN <<parked[i].current_animal, parked[i].guessed_letters,
                parked[i].attempts_left, PhaseOf(parked[i].pc)>>
         ELSE <<>>

Closed == pc = "done" /\ ~open /\ closeCalls = 1

----------------------------------------------------------------------------
(* Claims. *)

\* C1: on either transport, in the game and in the demo, once a send or a
\* receive has raised ConnectionError the session eventually ends with the
\* Connection closed; close is never called twice, and a session that has
\* ended has called close exactly once and left the Connection closed.
C1_LostEndsClosedOnce ==
    /\ [](closeCalls <= 1)
    /\ [](pc = "done" => ~open /\ closeCalls = 1)
    /\ ((lost # "none") ~> Closed)

\* a receive raised ConnectionError and the session ended, closed once
C1_Witness == lost = "recv" /\ Closed

\* C2 (as claimed): after a receive of the game has raised ConnectionError
\* the session starts no round, asks for no replay, and attempts no send and
\* no receive on the Connection before it closes it.
C2_ReadLossClosesAtOnce ==
    (prog = "game" /\ lost = "recv") =>
        /\ afterLost = {}
        /\ pc \notin {"round_start", "guess", "won", "lost", "replay"}

\* C3: at the replay prompt a received 'Y' or 'y' starts a new round, 'N'
\* or 'n' leads to the farewell and the close, and every other byte leaves
\* the session at the prompt with the finished round's state untouched; the
\* prompt is left for a new round only by 'Y'/'y', and for the farewell
\* only by 'N'/'n' or a ConnectionError.
C3_ReplayAcceptsOnlyYN ==
    [][(prog = "game" /\ pc = "replay") =>
        /\ \A b \in ReplayKeys : ReplayByte(b) =>
               /\ (b \in {89, 121} => pc' = "round_start")
               /\ (b \in {78, 110} => pc' = "farewell")
               /\ (b \notin {89, 121, 78, 110} => pc' = "replay" /\ round' = round)
        /\ pc' \in {"replay", "round_start", "farewell"}
        /\ round' = round
        /\ (pc' = "round_start" => \E b \in {89, 121} : ReplayByte(b))
        /\ (pc' = "farewell" =>
               \/ \E b \in {78, 110} : ReplayByte(b)
               \/ lost = "none" /\ lost' = "recv")
      ]_vars

\* a finished round was followed by 'Y': the next round is about to start
C3_Witness ==
    pc = "round_start" /\ current_animal # <<>> /\ lost = "none"

\* C4 (as claimed): a session at the replay prompt whose peer has
\* disconnected eventually ends with its Connection closed.
C4_ReplayEndsOnDisconnect ==
    (prog = "game" /\ pc = "replay" /\ link # "up") ~> Closed

\* C5: in a round, input is read only while some letter of the target word
\* is still missing and attempts remain; the step in which the last missing
\* letter of the word is accepted ends in ROUND_WON (unless a send raises
\* ConnectionError), whatever was guessed before and in whatever order; and
\* ROUND_WON is entered only by such a step, with every letter of the word
\* guessed and attempts above 0.
C5_AllLettersWin ==
    /\ [](prog = "game" /\ pc = "guess" =>
            /\ ~(Letters(current_animal) \subseteq guessed_letters)
            /\ attempts_left > 0)
    /\ [](pc = "won" =>
            /\ Letters(current_animal) \subseteq guessed_letters
            /\ attempts_left > 0)
    /\ [][(pc = "guess" /\ Letters(current_animal) \subseteq guessed_letters'
             /\ lost' = "none") => pc' = "won"]_vars
    /\ [][(pc' = "won" /\ pc # "won") =>
            /\ pc = "guess"
            /\ \E c \in Letters(current_animal) \ guessed_letters :
                   guessed_letters' = guessed_letters \cup {c}]_vars

\* LION won by its 4 letters with 5 letters outside the word guessed as well
C5_Witness ==
    /\ pc = "won"
    /\ current_animal = <<76, 73, 79, 78>>
    /\ Cardinality(guessed_letters) = 9

\* C6: a round starts with 6 attempts and no guessed letter; a step of the
\* round lowers attempts_left by exactly 1 when it adds to the guessed set
\* a letter that is not in the target word, and leaves it unchanged
\* otherwise (a letter of the word is added, or nothing is added: a letter
\* guessed before, a byte that is no letter); at most one letter is added
\* per step and nothing outside a round changes attempts_left.
C6_AttemptsDecrement ==
    [][prog = "game" =>
        /\ (pc = "round_start" /\ pc' = "guess" =>
               attempts_left' = 6 /\ guessed_letters' = {})
        /\ (pc = "guess" =>
               LET new == guessed_letters' \ guessed_letters
               IN  /\ guessed_letters \subseteq guessed_letters'
                   /\ Cardinality(new) <= 1
                   /\ \A c \in new : IsLetter(c)
                   /\ attempts_left' =
                        attempts_left - Cardinality(new \ Letters(current_animal)))
        /\ (pc \notin {"guess", "round_start"} => attempts_left' = attempts_left)
      ]_vars

\* two letters outside the word and two letters of the word have been
\* guessed, and the round waits for the next guess
C6_Witness ==
    /\ pc = "guess"
    /\ attempts_left = 4
    /\ Cardinality(guessed_letters) = 4

\* C7: whenever attempts_left is 0 the round is over (no guess is read and
\* no win is declared); the step that brings attempts_left to 0 ends in
\* ROUND_LOST (unless a send raises ConnectionError), and ROUND_LOST is
\* entered only with attempts_left at 0.  That step always accepts a new
\* letter, so the case of a repeated guess at 0 attempts never arises.
C7_ZeroAttemptsLost ==
    /\ [](prog = "game" /\ attempts_left = 0 => pc \notin {"welcome", "guess", "won"})
    /\ [](pc = "lost" => attempts_left = 0)
    /\ [][(attempts_left' = 0 /\ attempts_left # 0) =>
            /\ \/ pc' = "lost"
               \/ lost = "none" /\ lost' = "send"
            /\ guessed_letters' # guessed_letters]_vars

\* a round lost after three letters of the word had been found
C7_Witness ==
    /\ pc = "lost"
    /\ attempts_left = 0
    /\ Cardinality(guessed_letters \cap Letters(current_animal)) = 3

\* the order of the demo's phases as the design states it, after the greeting
ExpectedPhases ==
    <<"welcome", "control", "cursor", "erase", "scroll", "box", "summary">>

PhaseRank(p) == CHOOSE k \in 1..Len(ExpectedPhases) : ExpectedPhases[k] = p

\* C8: whatever the peer types, what the demo has sent is an initial part
\* of its one fixed script, sent one payload at a time in script order; the
\* phases follow each other in the order control characters, cursor
\* positioning, erase, scroll, box drawing, summary, all of them when no
\* send fails; and the demo reads nothing: typed bytes stay unread.
C8_DemoFixedOrderNoInput ==
    /\ [](prog = "demo" =>
            /\ dpc = Len(wire) + 1
            /\ wire = SubSeq(DemoScript, 1, Len(wire)))
    /\ [](\A i \in 1..(Len(wire) - 1) :
            /\ PhaseRank(wire[i].phase) <= PhaseRank(wire[i + 1].phase)
            /\ PhaseRank(wire[i + 1].phase) <= PhaseRank(wire[i].phase) + 1)
    /\ [](Len(wire) > 0 => wire[1].phase = "welcome")
    /\ [](prog = "demo" /\ pc = "done" /\ lost = "none" =>
            wire[Len(wire)].phase = "summary")
    /\ [][unread' >= unread]_vars
    /\ [][wire' # wire => Len(wire') = Len(wire) + 1]_vars

\* the whole script has been sent while the peer typed two bytes
C8_Witness ==
    /\ prog = "demo" /\ pc = "done" /\ lost = "none"
    /\ unread = 2
    /\ Len(wire) = 291

\* C9: once a send of the demo has raised ConnectionError the demo attempts
\* no further operation on the Connection but the close: it is on its way
\* to close or has closed, and has attempted nothing in between.
C9_DemoNoRetry ==
    (prog = "demo" /\ lost # "none") =>
        /\ lost = "send"
        /\ afterLost = {}
        /\ pc \in {"close", "done"}
        /\ (pc = "done" => Closed)

\* the 101st send failed and the session closed its Connection
C9_Witness ==
    /\ prog = "demo" /\ lost = "send" /\ Closed
    /\ Len(wire) = 100

\* C10: the demo always ends, with no help from the peer: it reaches its
\* terminal state with the Connection closed once, and when no send failed
\* it has sent its whole script, summary included.
C10_DemoTerminates ==
    /\ <>(pc = "done")
    /\ [](pc = "done" => Closed)
    /\ [](pc = "done" /\ lost = "none" =>
            /\ wire = DemoScript
            /\ {wire[i].phase : i \in 1..Len(wire)} =
                  {ExpectedPhases[k] : k \in 1..Len(ExpectedPhases)})

\* the demo ran to its end and closed while the peer typed nothing
C10_Witness ==
    /\ prog = "demo" /\ Closed /\ lost = "none"
    /\ unread = 0
    /\ wire = DemoScript

\* C11 (as claimed): when a receive of get_input returns zero bytes without
\* raising, the session goes on waiting for a guess: it stays in
\* ROUND_ACTIVE with the round unchanged and no ConnectionError arises.
C11_EmptyReadKeepsWaiting ==
    [][(prog = "game" /\ pc = "guess" /\ link = "up" /\ link' = "eof") =>
          /\ pc' = "guess"
          /\ round' = round
          /\ lost' = "none"]_vars

\* C12 (as claimed): on either transport, whenever the transport has found
\* the peer or the line gone, it has told the session by raising
\* ConnectionError from send or receive, never by an empty result of
\* receive.
C12_DisconnectAlwaysRaises ==
    (prog = "game" /\ link # "up") => lost \in {"send", "recv"}

\* C13: in network mode the session of a connection comes into being, new,
\* when the connection is accepted (no word, no guessed letter, 6 attempts,
\* at its first phase), and from then on its target word, guessed letters,
\* attempts and phase change only in steps of its own thread: no step of
\* another session, of the server or of the scheduler changes them.
C13_SessionsIsolated ==
    [][\A i \in Conns :
          View(i)' # View(i) =>
             \/ /\ View(i) = <<>>
                /\ View(i)' = << <<>>, {}, 6,
                                 IF prog = "game" THEN "WELCOME" ELSE "DEMO" >>
             \/ cur = i /\ cur' = i
      ]_vars

\* two game sessions run side by side, each in a round of its own with a
\* different letter guessed
C13_Witness ==
    /\ prog = "game" /\ cur = 2 /\ pc = "guess" /\ guessed_letters = {70}
    /\ IsSession(parked[1])
    /\ parked[1].pc = "guess" /\ parked[1].guessed_letters = {65}
    /\ parked[1].attempts_left = 5 /\ attempts_left = 6

\* C14 (as claimed): once the interrupt has stopped the accept loop, the
\* main thread closes the listening socket and finishes, whether or not
\* worker sessions are still running.
C14_ShutdownCompletes ==
    (main = "shutdown") ~> (main = "exit" /\ ~listening /\ ~accepting)

\* C15: for every row in 1..24 and every col in 1..80, in either program
\* and on either transport, position_cursor sends exactly the four bytes
\* 27 (ESC), 89 ('Y'), row + 31, col + 31, in this order, as one payload.
C15_PositionEncoding ==
    (cmd # NotCalled /\ row \in 1..24 /\ col \in 1..80) =>
        cmd = [raw |-> <<27, 89, row + 31, col + 31>>, text |-> "", arg |-> -1]

\* the bottom right corner of the screen: ESC Y '7' 'o'
C15_Witness ==
    /\ cmd # NotCalled /\ row = 24 /\ col = 80
    /\ cmd.raw = <<27, 89, 55, 111>>

\* C16 (as claimed): for every pair of integers (row, col), on the screen
\* or not, position_cursor raises nothing and sends a command of four
\* bytes that begins with ESC 'Y'.
C16_AnyPositionEncodes ==
    cmd # NotCalled =>
        IF "raw" \in DOMAIN cmd
        THEN Len(cmd.raw) = 4 /\ cmd.raw[1] = 27 /\ cmd.raw[2] = 89
        ELSE FALSE

\* C16 (amended): position_cursor neither checks nor clamps row and col
\* against the screen: whenever row + 31 and col + 31 both fit a byte
\* (0..255) it sends the four bytes ESC 'Y' row+31 col+31, on the screen or
\* off it; when one of them does not fit a byte it raises ValueError and
\* sends nothing.
C16_EncodesWhatFitsAByte ==
    cmd # NotCalled =>
        IF row + 31 \in 0..255 /\ col + 31 \in 0..255
        THEN cmd = [raw |-> <<27, 89, row + 31, col + 31>>, text |-> "", arg |-> -1]
        ELSE cmd = [raises |-> "ValueError"]

\* far off the screen and still encoded: row 224, col -31 give ESC Y 255 0
C16_Witness ==
    /\ row = 224 /\ col = -31
    /\ cmd # NotCalled
    /\ cmd.raw = <<27, 89, 255, 0>>

\* C17 (as claimed): in serial mode, when the serial line cannot be opened,
\* no session is started and the process ends with an exit code other
\* than 0.
C17_SerialOpenFailureIsFatal ==
    [][(main = "serial_open" /\ ~open') =>
          /\ pc' = "idle"
          /\ main' = "exit"
          /\ exit_code' > 0]_vars

\* C18 (as claimed): a game session on the serial line that waits for a
\* guess does not wait for ever: its receive returns, with a byte, with
\* nothing or with an error, and get_input goes on from there.
C18_SerialReceiveReturns ==
    (prog = "game" /\ transport = "serial" /\ pc = "guess") ~> (pc # "guess")

\* C19 (as claimed): in telnet mode run_telnet_server is called in every
\* case, with the number given as --port when it is one and with 2323
\* otherwise.
C19_PortDefaultsTo2323 ==
    (args.mode = "telnet" /\ main # "parse") =>
        telnet_port = (IF int(args.port).raises = ""
                       THEN int(args.port).value
                       ELSE 2323)

\* C19 (amended): in telnet mode run_telnet_server is called with 2323
\* when --port is absent (its default text 'COM9'), and with the number
\* when --port is one; when --port is given and is no number, main reports
\* it and returns with exit code 0: no server is started, nothing listens
\* and no session runs.
C19_PortOrDefaultOrRefusal ==
    (args.mode = "telnet" /\ main # "parse") =>
        IF args.port = COM9
        THEN telnet_port = 2323
        ELSE IF int(args.port).raises = ""
             THEN telnet_port = int(args.port).value
             ELSE /\ telnet_port = 0
                  /\ main = "exit" /\ exit_code = 0
                  /\ ~listening /\ ~accepting
                  /\ cur = 0 /\ pc = "idle"

\* no --port was given: the server listens on 2323 and a session runs
C19_Witness ==
    /\ args.mode = "telnet" /\ args.port = COM9
    /\ listening /\ telnet_port = 2323
    /\ cur = 1 /\ pc = "guess"

\* C20: the phase of a game session changes only along WELCOME ->
\* ROUND_ACTIVE -> ROUND_WON or ROUND_LOST -> REPLAY_PROMPT -> ROUND_ACTIVE
\* or the end; a session leaves for the end (the farewell and the close,
\* then CLOSED) only from the replay prompt or in a step in which a
\* ConnectionError first arises; so a won and a lost round are followed by
\* the replay prompt unless the connection fails, and CLOSED is never left.
C20_PhaseEdges ==
    [][(prog = "game" /\ Phase' # Phase) =>
          \/ <<Phase, Phase'>> \in
                { <<"WELCOME", "ROUND_ACTIVE">>,
                  <<"ROUND_ACTIVE", "ROUND_WON">>,
                  <<"ROUND_ACTIVE", "ROUND_LOST">>,
                  <<"ROUND_WON", "REPLAY_PROMPT">>,
                  <<"ROUND_LOST", "REPLAY_PROMPT">>,
                  <<"REPLAY_PROMPT", "ROUND_ACTIVE">>,
                  <<"REPLAY_PROMPT", "CLOSING">>,
                  <<"CLOSING", "CLOSED">> }
          \/ /\ Phase' = "CLOSING"
             /\ Phase \notin {"CLOSING", "CLOSED"}
             /\ lost = "none" /\ lost' # "none"
      ]_vars

\* a lost round was followed by the replay prompt and 'Y': the next round
\* is about to start, the lost round's state not yet reset
C20_Witness ==
    /\ prog = "game" /\ pc = "round_start"
    /\ attempts_left = 0 /\ lost = "none"

\* C21: every round, the first and each one started by 'Y', begins with a
\* word of the animal list, no guessed letters and 6 attempts: a step out of
\* the round's start either fails on the first clear_screen, before the
\* round is set up, or leaves the round reset, whatever the round before
\* left behind.
C21_RoundStartsFresh ==
    [][(prog = "game" /\ pc = "round_start") =>
          \/ /\ \E k \in 1..Len(animals) : current_animal' = animals[k]
             /\ guessed_letters' = {}
             /\ attempts_left' = max_attempts
             /\ attempts_left' = 6
             /\ said' = {}
          \/ /\ pc' = "close" /\ lost' # "none"
             /\ UNCHANGED round
      ]_vars

\* a round follows a lost one, whose last picture is still the screen drawn
\* last: its word is chosen, no letter is guessed and 6 attempts remain
C21_Witness ==
    /\ prog = "game" /\ pc = "close"
    /\ screen.hangman = 6 /\ screen.word = <<>>
    /\ current_animal # <<>>
    /\ guessed_letters = {} /\ attempts_left = 6

\* C22: while a guess is awaited, receiving a byte that is no ASCII letter
\* after uppercasing, or a letter (in either case) that is already guessed,
\* leaves the target word, the guessed letters and the attempts as they are,
\* and the session goes on awaiting a guess unless a ConnectionError arises
\* in that step; in any step that adds no letter to the guessed set the word
\* and the attempts do not change.
C22_RejectedByteChangesNothing ==
    [][(prog = "game" /\ pc = "guess") =>
          /\ \A b \in NonLetters \cup guessed_letters
                        \cup {c + 32 : c \in guessed_letters} :
                GuessByte(b) =>
                   /\ UNCHANGED round
                   /\ \/ pc' = "guess" /\ Phase' = "ROUND_ACTIVE"
                      \/ lost = "none" /\ lost' # "none"
          /\ guessed_letters' = guessed_letters =>
                /\ UNCHANGED <<current_animal, attempts_left>>
                /\ \/ pc' = "guess"
                   \/ lost = "none" /\ lost' # "none"
      ]_vars

\* a guess is awaited, one right and one wrong letter are guessed, and the
\* peer can send the wrong one again, in lower case, or a digit
C22_Witness ==
    /\ prog = "game" /\ pc = "guess" /\ lost = "none"
    /\ current_animal = <<76, 73, 79, 78>>
    /\ guessed_letters = {76, 65}
    /\ attempts_left = 5
    /\ ENABLED GuessByte(97)
    /\ ENABLED GuessByte(49)

\* C23: the guessed-letter set holds only uppercase letters A..Z; receiving a
\* lowercase letter is the same step as receiving its uppercase form; and a
\* step adds at most one letter to the set, never any other byte.
C23_GuessedLettersUppercase ==
    /\ [](guessed_letters \subseteq 65..90)
    /\ [][(prog = "game" /\ pc = "guess") =>
            /\ \A c \in 97..122 : GuessByte(c) <=> GuessByte(c - 32)
            /\ \A b \in guessed_letters' \ guessed_letters :
                  /\ IsLetter(b)
                  /\ guessed_letters' = guessed_letters \cup {b}
                  /\ GuessByte(b) /\ GuessByte(b + 32)
         ]_vars

\* a T and an A have been guessed for TIGER, whichever case they came in
C23_Witness ==
    /\ prog = "game" /\ pc = "guess"
    /\ current_animal = <<84, 73, 71, 69, 82>>
    /\ guessed_letters = {84, 65}
    /\ attempts_left = 5

\* C24: after the session has invoked close on its Connection it attempts
\* no send and no receive on it, in the game and in the demo, whether it
\* ended normally, after a ConnectionError or after another exception: once
\* close has been called the session is over, and nothing more is sent,
\* received or drawn.
C24_NothingAfterClose ==
    /\ [](afterClose = {})
    /\ [](closeCalls > 0 => pc = "done" /\ ~open)
    /\ [][closeCalls > 0 =>
            UNCHANGED <<wire, dpc, unread, link, lost, afterLost, round, display>>]_vars

\* a demo is closed after an exception that was not a ConnectionError: part
\* of the script was sent, the link never failed
C24_Witness ==
    /\ prog = "demo" /\ pc = "done" /\ ~open /\ closeCalls = 1
    /\ lost = "none" /\ link = "up"
    /\ dpc > 1 /\ dpc < Len(DemoScript)

\* C25: close on a Connection that is closed already raises nothing and
\* leaves it closed, on the serial and on the telnet transport, so the close
\* that follows the session's own close is safe.
C25_CloseIdempotent ==
    /\ [](\A tr \in {"serial", "telnet"} :
             /\ close(tr, FALSE) = [raises |-> "", open |-> FALSE]
             /\ close(tr, close(tr, TRUE).open) = close(tr, TRUE))
    /\ [](pc # "failed")
    /\ [][CloseAgain => (~open /\ ~open' /\ pc' = "done")]_vars

\* a telnet session was closed by the session and then once more
C25_Witness ==
    /\ transport = "telnet" /\ pc = "done"
    /\ closeCalls = 2 /\ ~open

\* C26: in every state of a game the attempts remaining are 6 minus the
\* number of guessed letters that do not occur in the target word, and they
\* lie within 0..6.
C26_AttemptsCountWrongLetters ==
    prog = "game" =>
       /\ attempts_left = 6 - Cardinality(guessed_letters \ Letters(current_animal))
       /\ attempts_left \in 0..6
       /\ max_attempts = 6

\* three wrong letters and two right ones are guessed: 3 attempts remain
C26_Witness ==
    /\ prog = "game" /\ pc = "guess"
    /\ Cardinality(guessed_letters \ Letters(current_animal)) = 3
    /\ Cardinality(guessed_letters \cap Letters(current_animal)) = 2
    /\ attempts_left = 3

\* C27: a round ends as won, as lost, or by a connection failure, and as one
\* of them only: the win message and the game-over message are never both
\* sent in one round; a round is reported won only with its word complete
\* and attempts remaining, and lost only with none remaining; once the 6th
\* wrong letter is guessed the win message is not sent.
C27_OneEndingPerRound ==
    /\ [](prog = "game" =>
            /\ Cardinality(said) <= 1
            /\ said \subseteq {"won", "over"}
            /\ pc = "won" =>
                  /\ said = {"won"} /\ attempts_left > 0
                  /\ WinCondition(current_animal, guessed_letters)
            /\ pc = "lost" =>
                  /\ said = {"over"} /\ attempts_left = 0
                  /\ ~WinCondition(current_animal, guessed_letters)
            /\ Cardinality(guessed_letters \ Letters(current_animal)) >= 6 =>
                  "won" \notin said)
    /\ [][(prog = "game" /\ pc = "guess" /\ pc' # "guess") =>
            \/ pc' = "won" /\ lost' = "none"
            \/ pc' = "lost" /\ lost' = "none"
            \/ lost = "none" /\ lost' # "none" /\ pc' \in {"farewell", "close"}
         ]_vars

\* the 6th wrong letter has ended a round in which all but one letter of
\* the word were found: the game-over message is sent, the win message not
C27_Witness ==
    /\ prog = "game" /\ pc = "lost" /\ lost = "none"
    /\ said = {"over"}
    /\ Cardinality(guessed_letters \ Letters(current_animal)) = 6
    /\ Cardinality(Letters(current_animal) \ guessed_letters) = 1

\* C28: a round accepts a bounded number of new letters: with n distinct
\* letters in the target word, at most n + 5 letters are ever in the guessed
\* set, at most n + 4 while the round still awaits a guess; each accepted
\* letter adds one to the set, so a round cannot go on for ever on new
\* letters.
C28_RoundBounded ==
    /\ []((prog = "game" /\ current_animal # <<>>) =>
            /\ Cardinality(guessed_letters)
                  <= Cardinality(Letters(current_animal)) + 5
            /\ pc = "guess" =>
                  Cardinality(guessed_letters)
                     <= Cardinality(Letters(current_animal)) + 4)
    /\ [][(prog = "game" /\ pc = "guess" /\ guessed_letters' # guessed_letters) =>
            Cardinality(guessed_letters')  = Cardinality(guessed_letters) + 1
         ]_vars

\* a round is won with its last attempt: n + 5 letters were accepted
C28_Witness ==
    /\ prog = "game" /\ pc = "won"
    /\ attempts_left = 1
    /\ Cardinality(guessed_letters) = Cardinality(Letters(current_animal)) + 5

\* C29: every redraw draws the hangman picture of index 6 - attempts
\* remaining, the number of wrong guesses so far, the last draw of a lost
\* round the one of index 6; in every state of a game that index lies in
\* 0..6 and the lookup in the seven pictures, all different, succeeds.
C29_StageIsWrongGuesses ==
    /\ [](prog = "game" =>
            /\ draw_hangman(attempts_left, attempts_left)
                  = [raises |-> "", index |-> 6 - attempts_left]
            /\ 6 - attempts_left \in 0..6
            /\ 6 - attempts_left + 1 \in DOMAIN stages
            /\ pc \in {"guess", "won"} =>
                  screen.hangman
                     = Cardinality(guessed_letters \ Letters(current_animal))
            /\ pc = "lost" => screen.hangman = 6)
    /\ [](Len(stages) = 7
            /\ \A i, j \in DOMAIN stages : i # j => stages[i] # stages[j])
    /\ [][(prog = "game" /\ screen' # screen) =>
            /\ screen'.hangman = 6 - attempts_left'
            /\ screen'.hangman \in 0..6
         ]_vars

\* after four wrong guesses the picture of index 4 is on the screen
C29_Witness ==
    /\ prog = "game" /\ pc = "guess"
    /\ attempts_left = 2
    /\ screen.hangman = 4

\* C30: the masked word drawn at a redraw has, for each position of the
\* target word in order, the letter itself if it is in the guessed set and
\* an underscore otherwise, each followed by a blank; so a guessed letter
\* shows at every place it occurs, and the mask is free of underscores
\* exactly when the win condition holds.
C30_MaskShowsGuessedLetters ==
    (prog = "game" /\ pc \in {"guess", "won"}) =>
       /\ Len(screen.word) = 2 * Len(current_animal)
       /\ \A i \in 1..Len(current_animal) :
             /\ screen.word[2 * i - 1]
                   = IF current_animal[i] \in guessed_letters
                     THEN current_animal[i] ELSE 95
             /\ screen.word[2 * i] = 32
       /\ \A i, j \in 1..Len(current_animal) :
             current_animal[i] = current_animal[j] =>
                (screen.word[2 * i - 1] = 95 <=> screen.word[2 * j - 1] = 95)
       /\ (\A k \in 1..Len(screen.word) : screen.word[k] # 95)
             <=> WinCondition(current_animal, guessed_letters)
       /\ (\A k \in 1..Len(screen.word) : screen.word[k] # 95) <=> pc = "won"

\* KANGAROO with only the A guessed: both A's show, the rest is masked
C30_Witness ==
    /\ prog = "game" /\ pc = "guess"
    /\ current_animal = <<75, 65, 78, 71, 65, 82, 79, 79>>
    /\ guessed_letters = {65}
    /\ screen.word = <<95, 32, 65, 32, 95, 32, 95, 32, 65, 32, 95, 32, 95, 32, 95, 32>>

\* C31: in network mode a step in which the running session fails, by a
\* ConnectionError or by any other exception, is handled within that
\* session, which goes on to its end and its close: the step leaves the main
\* thread, the listening socket, the accept loop and every other session as
\* they are; no step of a session changes any of these; and while the server
\* serves, it listens and accepts, and takes the next connection whatever
\* has become of the sessions before.
C31_FailureEndsOnlyItsSession ==
    /\ [][(cur # 0 /\ cur' = cur
             /\ \/ lost = "none" /\ lost' # "none"
                \/ RunUnexpected) =>
            /\ pc' \in {"farewell", "close"}
            /\ UNCHANGED <<args, main, exit_code, telnet_port, listening,
                           accepting, parked>>
            /\ \A i \in Conns : i # cur => View(i)' = View(i)
         ]_vars
    /\ [][(cur # 0 /\ cur' = cur /\ session' # session) =>
            UNCHANGED <<main, exit_code, listening, accepting, parked>>]_vars
    /\ [](main = "serving" =>
            /\ listening /\ accepting
            /\ \A i \in Conns :
                  (parked[i] = Free
                     /\ IF i = 1 THEN TRUE ELSE parked[i - 1] # Free) =>
                     ENABLED Accept(i))
    /\ [](lost # "none" => pc \in {"farewell", "close", "done"})

\* the first session has ended on a ConnectionError while the server
\* serves; the second plays on, a letter guessed
C31_Witness ==
    /\ prog = "game" /\ main = "serving" /\ listening /\ accepting
    /\ cur = 2 /\ pc = "guess" /\ lost = "none" /\ guessed_letters # {}
    /\ IsSession(parked[1])
    /\ parked[1].pc = "done" /\ parked[1].lost # "none" /\ ~parked[1].open

\* C32: at the guess prompt get_input answers a received byte only if it is
\* an ASCII letter after uppercasing, and then with the uppercase letter,
\* CR, LF, whatever case it came in; it does so for a letter that is guessed
\* already like for a new one; and a byte that is no letter is a step in
\* which nothing is sent and nothing changes.
C32_EchoLettersOnly ==
    /\ \A b \in 0..255 :
          get_input_echo(b) = IF b \in 65..90 THEN <<b, 13, 10>>
                              ELSE IF b \in 97..122 THEN <<b - 32, 13, 10>>
                              ELSE <<>>
    /\ [](echo # NoEcho =>
            /\ echo.key \in (65..90) \cup (97..122)
            /\ echo.sent = <<IF echo.key >= 97 THEN echo.key - 32 ELSE echo.key,
                             13, 10>>
            /\ echo.sent[1] \in guessed_letters)
    /\ [][(pc = "guess" /\ lost' = lost /\ <<round, echo>>' # <<round, echo>>) =>
            /\ echo' # NoEcho
            /\ echo'.sent[1] \in guessed_letters'
            /\ guessed_letters' \in {guessed_letters,
                                     guessed_letters \cup {echo'.sent[1]}}
         ]_vars
    /\ [][(pc = "guess" /\ \E b \in NonLetters : GuessByte(b)) =>
            UNCHANGED vars]_vars

\* LION with the L guessed and then an 'l' received: it is echoed as L, and
\* the round is where it was
C32_Witness ==
    /\ trace /\ prog = "game" /\ pc = "guess"
    /\ current_animal = <<76, 73, 79, 78>>
    /\ guessed_letters = {76} /\ attempts_left = 6
    /\ echo = [key |-> 108, sent |-> <<76, 13, 10>>]

====
